---- MODULE Spec2Model ----
(***************************************************************************)
(* The persistence core of the generalized network collector:              *)
(* BaseCollector's six upsert operations over the relations data_sources,  *)
(* root_entities, hierarchy_nodes, entity_types, entities and metadata,    *)
(* and NetworkCollector.collect(), which drives them for one run.          *)
(***************************************************************************)
EXTENDS Integers, Sequences, FiniteSets, TLC

VARIABLES
    db,              \* the committed content of the store (six relations and their id sequences)
    now,             \* the store's clock (CURRENT_TIMESTAMP)
    idGaps,          \* whether the store's id sequence also advances on a conflicting upsert
    conns,           \* handles opened by psycopg2.connect and not yet released by close()
    connection,      \* self.connection
    data_source_id,  \* self.data_source_id
    pc,              \* position of the process: idle, connect, collect, returned_true, ...
    ip,              \* number of the next store call made through this collector
    regs,            \* local variables of collect() that hold returned identifiers
    input,           \* what this run discovers: configuration, ZeroTier, Tailscale, SSH, host
    prog,            \* the store calls collect() makes for this input, in order
    runs,            \* number of processes started so far
    last,            \* the last store call: its operation, arguments, result and error
    returned,        \* every <<relation, conflict key, id>> an upsert has returned
    dbStart,         \* db when the current run started
    prevStart,       \* db when the previous run started
    prevInput,       \* input of the previous run
    prevOutcome,     \* how the previous run ended
    caught,          \* whether an except clause of this run has caught and printed an error
    faults           \* number of failures so far: store calls that raised a storage
                     \* error and processes that were killed

vars == <<db, now, idGaps, conns, connection, data_source_id, pc, ip, regs, input, prog,
          runs, last, returned, dbStart, prevStart, prevInput, prevOutcome, caught,
          faults>>

(***************************************************************************)
(* Bounds of the model.                                                    *)
(***************************************************************************)
MaxTime == 1
MaxRuns == 2
MaxCalls == 2
MaxFaults == 1

(***************************************************************************)
(* Values.                                                                 *)
(***************************************************************************)
NULL == 0
NoText == "None"

Relations == {"data_sources", "root_entities", "hierarchy_nodes", "entity_types", "entities"}

EmptyDb ==
    [data_sources |-> {}, root_entities |-> {}, hierarchy_nodes |-> {},
     entity_types |-> {}, entities |-> {}, metadata |-> {},
     seq |-> [r \in Relations |-> 0]]

\* hashlib.sha256(path.encode()).hexdigest(): a digest determined by the path alone
Sha256(path) == "sha256(" \o path \o ")"

\* json.dumps(x) if x else None
JsonOrNone(x) == IF x = "" THEN NoText ELSE "json(" \o x \o ")"

(***************************************************************************)
(* The store: INSERT ... ON CONFLICT (key) DO UPDATE SET ... RETURNING id  *)
(***************************************************************************)
\* the id the store assigns to the row an INSERT proposes
NextVal(d, rel) == d.seq[rel] + 1

\* the sequence after a statement; an insertion always consumes the value it
\* used, a conflicting or failing statement consumes it on stores that
\* evaluate the default before the conflict is detected
Consume(d, rel, inserted) ==
    IF inserted \/ idGaps THEN [d.seq EXCEPT ![rel] = @ + 1] ELSE d.seq

Ids(rows) == {r.id : r \in rows}

Ok(d, id) == [db |-> d, ret |-> id, err |-> "none"]
Raise(d, e) == [db |-> d, ret |-> NULL, err |-> e]

\* foreign keys of the schema: a reference must identify an existing row
RootRefsHold(d, source_id) == source_id \in Ids(d.data_sources)

\* variant: only the root reference is declared as a foreign key
NodeRefsHoldRootOnly(d, parent_id, root_entity_id) ==
    root_entity_id \in Ids(d.root_entities)

NodeRefsHold(d, parent_id, root_entity_id) ==
    /\ parent_id = NULL \/ parent_id \in Ids(d.hierarchy_nodes)
    /\ root_entity_id \in Ids(d.root_entities)

EntityRefsHold(d, parent_node_id, root_entity_id, entity_type_id) ==
    /\ parent_node_id \in Ids(d.hierarchy_nodes)
    /\ root_entity_id \in Ids(d.root_entities)
    /\ entity_type_id = NULL \/ entity_type_id \in Ids(d.entity_types)

\* variant: the conflict target is the wrong column
DataSourceConflictOnDescription(r, source_name) == r.description = source_name

DataSourceConflict(r, source_name) == r.name = source_name

\* variant: ON CONFLICT keeps the stored row and returns its id
InitializeDataSourceKeepsOld(d, t, source_name, source_type, description, source_config) ==
    LET hit == {r \in d.data_sources : DataSourceConflict(r, source_name)}
        row == [id |-> NextVal(d, "data_sources"), name |-> source_name,
                source_type |-> source_type, description |-> description,
                connection_info |-> JsonOrNone(source_config), updated_at |-> t]
    IN  IF hit = {}
        THEN Ok([d EXCEPT !.data_sources = @ \cup {row},
                          !.seq = Consume(d, "data_sources", TRUE)], row.id)
        ELSE Ok([d EXCEPT !.seq = Consume(d, "data_sources", FALSE)],
                (CHOOSE r \in hit : TRUE).id)

InitializeDataSource(d, t, source_name, source_type, description, source_config) ==
    LET hit == {r \in d.data_sources : DataSourceConflict(r, source_name)}
        row == [id |-> NextVal(d, "data_sources"), name |-> source_name,
                source_type |-> source_type, description |-> description,
                connection_info |-> JsonOrNone(source_config), updated_at |-> t]
    IN  IF hit = {}
        THEN Ok([d EXCEPT !.data_sources = @ \cup {row},
                          !.seq = Consume(d, "data_sources", TRUE)], row.id)
        ELSE Ok([d EXCEPT !.data_sources = (@ \ hit) \cup
                              {[r EXCEPT !.source_type = source_type,
                                         !.description = description,
                                         !.connection_info = JsonOrNone(source_config),
                                         !.updated_at = t] : r \in hit},
                          !.seq = Consume(d, "data_sources", FALSE)],
                (CHOOSE r \in hit : TRUE).id)

RootEntityConflict(r, source_id, name) == r.source_id = source_id /\ r.name = name

\* variant: the row is written although the statement fails
InitializeRootEntityWritesThenFails(d, t, source_id, name, entity_type, path, metadata) ==
    LET hit == {r \in d.root_entities : RootEntityConflict(r, source_id, name)}
        row == [id |-> NextVal(d, "root_entities"), source_id |-> source_id,
                name |-> name, entity_type |-> entity_type, path |-> path,
                metadata |-> JsonOrNone(metadata), updated_at |-> t]
    IN  IF ~RootRefsHold(d, source_id)
        THEN Raise([d EXCEPT !.root_entities = @ \cup {row},
                             !.seq = Consume(d, "root_entities", TRUE)],
                   "ConstraintViolation")
        ELSE IF hit = {}
        THEN Ok([d EXCEPT !.root_entities = @ \cup {row},
                          !.seq = Consume(d, "root_entities", TRUE)], row.id)
        ELSE Ok([d EXCEPT !.root_entities = (@ \ hit) \cup
                              {[r EXCEPT !.entity_type = entity_type,
                                         !.path = path,
                                         !.metadata = JsonOrNone(metadata),
                                         !.updated_at = t] : r \in hit},
                          !.seq = Consume(d, "root_entities", FALSE)],
                (CHOOSE r \in hit : TRUE).id)

InitializeRootEntity(d, t, source_id, name, entity_type, path, metadata) ==
    LET hit == {r \in d.root_entities : RootEntityConflict(r, source_id, name)}
        row == [id |-> NextVal(d, "root_entities"), source_id |-> source_id,
                name |-> name, entity_type |-> entity_type, path |-> path,
                metadata |-> JsonOrNone(metadata), updated_at |-> t]
    IN  IF ~RootRefsHold(d, source_id)
        THEN Raise([d EXCEPT !.seq = Consume(d, "root_entities", FALSE)],
                   "ConstraintViolation")
        ELSE IF hit = {}
        THEN Ok([d EXCEPT !.root_entities = @ \cup {row},
                          !.seq = Consume(d, "root_entities", TRUE)], row.id)
        ELSE Ok([d EXCEPT !.root_entities = (@ \ hit) \cup
                              {[r EXCEPT !.entity_type = entity_type,
                                         !.path = path,
                                         !.metadata = JsonOrNone(metadata),
                                         !.updated_at = t] : r \in hit},
                          !.seq = Consume(d, "root_entities", FALSE)],
                (CHOOSE r \in hit : TRUE).id)

\* variant: the conflict target is the path alone
HierarchyNodeConflictOnPath(r, root_entity_id, path) == r.path = path

\* variant: the digest column is compared with the path
HierarchyNodeConflictOnHash(r, root_entity_id, path) ==
    r.root_entity_id = root_entity_id /\ r.path_hash = path

HierarchyNodeConflict(r, root_entity_id, path) ==
    r.root_entity_id = root_entity_id /\ r.path = path

GetOrCreateHierarchyNode(d, t, path, parent_id, root_entity_id, name, node_type, depth, properties) ==
    LET hit == {r \in d.hierarchy_nodes : HierarchyNodeConflict(r, root_entity_id, path)}
        row == [id |-> NextVal(d, "hierarchy_nodes"), path_hash |-> Sha256(path),
                path |-> path, parent_id |-> parent_id,
                root_entity_id |-> root_entity_id, name |-> name,
                node_type |-> node_type, depth |-> depth,
                properties |-> JsonOrNone(properties), updated_at |-> t]
    IN  IF ~NodeRefsHold(d, parent_id, root_entity_id)
        THEN Raise([d EXCEPT !.seq = Consume(d, "hierarchy_nodes", FALSE)],
                   "ConstraintViolation")
        ELSE IF hit = {}
        THEN Ok([d EXCEPT !.hierarchy_nodes = @ \cup {row},
                          !.seq = Consume(d, "hierarchy_nodes", TRUE)], row.id)
        ELSE Ok([d EXCEPT !.hierarchy_nodes = (@ \ hit) \cup
                              {[r EXCEPT !.parent_id = parent_id,
                                         !.name = name,
                                         !.node_type = node_type,
                                         !.depth = depth,
                                         !.properties = JsonOrNone(properties),
                                         !.updated_at = t] : r \in hit},
                          !.seq = Consume(d, "hierarchy_nodes", FALSE)],
                (CHOOSE r \in hit : TRUE).id)

EntityTypeConflict(r, name, category) == r.name = name /\ r.category = category

GetOrCreateEntityType(d, t, name, category, mime_type, description) ==
    LET hit == {r \in d.entity_types : EntityTypeConflict(r, name, category)}
        row == [id |-> NextVal(d, "entity_types"), name |-> name,
                category |-> category, mime_type |-> mime_type,
                description |-> description, updated_at |-> t]
    IN  IF hit = {}
        THEN Ok([d EXCEPT !.entity_types = @ \cup {row},
                          !.seq = Consume(d, "entity_types", TRUE)], row.id)
        ELSE Ok([d EXCEPT !.entity_types = (@ \ hit) \cup
                              {[r EXCEPT !.mime_type = mime_type,
                                         !.description = description] : r \in hit},
                          !.seq = Consume(d, "entity_types", FALSE)],
                (CHOOSE r \in hit : TRUE).id)

\* variant: an entity is identified by its name under any parent
EntityConflictOnName(r, parent_node_id, name) == r.name = name

\* variant: the name is compared with the path column
EntityConflictOnPath(r, parent_node_id, name) ==
    r.parent_node_id = parent_node_id /\ r.path = name

EntityConflict(r, parent_node_id, name) ==
    r.parent_node_id = parent_node_id /\ r.name = name

\* variant: ON CONFLICT overwrites the path but keeps the stored path_hash
GetOrCreateEntityKeepsHash(d, t, path, parent_node_id, root_entity_id, name, entity_type_id, size, content_hash, content_type, content) ==
    LET hit == {r \in d.entities : EntityConflict(r, parent_node_id, name)}
        row == [id |-> NextVal(d, "entities"), path_hash |-> Sha256(path),
                path |-> path, parent_node_id |-> parent_node_id,
                root_entity_id |-> root_entity_id, name |-> name,
                entity_type_id |-> entity_type_id, size |-> size,
                content_hash |-> content_hash, content_type |-> content_type,
                content |-> JsonOrNone(content), updated_at |-> t]
    IN  IF ~EntityRefsHold(d, parent_node_id, root_entity_id, entity_type_id)
        THEN Raise([d EXCEPT !.seq = Consume(d, "entities", FALSE)],
                   "ConstraintViolation")
        ELSE IF hit = {}
        THEN Ok([d EXCEPT !.entities = @ \cup {row},
                          !.seq = Consume(d, "entities", TRUE)], row.id)
        ELSE Ok([d EXCEPT !.entities = (@ \ hit) \cup
                              {[r EXCEPT !.path = path,
                                         !.root_entity_id = root_entity_id,
                                         !.entity_type_id = entity_type_id,
                                         !.size = size,
                                         !.content_hash = content_hash,
                                         !.content_type = content_type,
                                         !.content = JsonOrNone(content),
                                         !.updated_at = t] : r \in hit},
                          !.seq = Consume(d, "entities", FALSE)],
                (CHOOSE r \in hit : TRUE).id)

GetOrCreateEntity(d, t, path, parent_node_id, root_entity_id, name, entity_type_id, size, content_hash, content_type, content) ==
    LET hit == {r \in d.entities : EntityConflict(r, parent_node_id, name)}
        row == [id |-> NextVal(d, "entities"), path_hash |-> Sha256(path),
                path |-> path, parent_node_id |-> parent_node_id,
                root_entity_id |-> root_entity_id, name |-> name,
                entity_type_id |-> entity_type_id, size |-> size,
                content_hash |-> content_hash, content_type |-> content_type,
                content |-> JsonOrNone(content), updated_at |-> t]
    IN  IF ~EntityRefsHold(d, parent_node_id, root_entity_id, entity_type_id)
        THEN Raise([d EXCEPT !.seq = Consume(d, "entities", FALSE)],
                   "ConstraintViolation")
        ELSE IF hit = {}
        THEN Ok([d EXCEPT !.entities = @ \cup {row},
                          !.seq = Consume(d, "entities", TRUE)], row.id)
        ELSE Ok([d EXCEPT !.entities = (@ \ hit) \cup
                              {[r EXCEPT !.path_hash = Sha256(path),
                                         !.path = path,
                                         !.root_entity_id = root_entity_id,
                                         !.entity_type_id = entity_type_id,
                                         !.size = size,
                                         !.content_hash = content_hash,
                                         !.content_type = content_type,
                                         !.content = JsonOrNone(content),
                                         !.updated_at = t] : r \in hit},
                          !.seq = Consume(d, "entities", FALSE)],
                (CHOOSE r \in hit : TRUE).id)

MetadataConflict(r, entity_type, entity_id, key) ==
    r.entity_type = entity_type /\ r.entity_id = entity_id /\ r.key = key

\* variant: ON CONFLICT updates the value but not the data_type
AddMetadataKeepsType(d, t, entity_type, entity_id, key, value, data_type) ==
    LET hit == {r \in d.metadata : MetadataConflict(r, entity_type, entity_id, key)}
        row == [entity_type |-> entity_type, entity_id |-> entity_id, key |-> key,
                value |-> value, data_type |-> data_type, updated_at |-> t]
    IN  IF hit = {}
        THEN Ok([d EXCEPT !.metadata = @ \cup {row}], NULL)
        ELSE Ok([d EXCEPT !.metadata = (@ \ hit) \cup
                              {[r EXCEPT !.value = value, !.updated_at = t] : r \in hit}],
                NULL)

\* variant: a new key replaces the other entries of its owner
AddMetadataReplacesOwner(d, t, entity_type, entity_id, key, value, data_type) ==
    LET hit == {r \in d.metadata : MetadataConflict(r, entity_type, entity_id, key)}
        mine == {r \in d.metadata : r.entity_type = entity_type /\ r.entity_id = entity_id}
        row == [entity_type |-> entity_type, entity_id |-> entity_id, key |-> key,
                value |-> value, data_type |-> data_type, updated_at |-> t]
    IN  IF hit = {}
        THEN Ok([d EXCEPT !.metadata = (@ \ mine) \cup {row}], NULL)
        ELSE Ok([d EXCEPT !.metadata = (@ \ hit) \cup
                              {[r EXCEPT !.value = value,
                                         !.data_type = data_type,
                                         !.updated_at = t] : r \in hit}], NULL)

AddMetadata(d, t, entity_type, entity_id, key, value, data_type) ==
    LET hit == {r \in d.metadata : MetadataConflict(r, entity_type, entity_id, key)}
        row == [entity_type |-> entity_type, entity_id |-> entity_id, key |-> key,
                value |-> value, data_type |-> data_type, updated_at |-> t]
    IN  IF hit = {}
        THEN Ok([d EXCEPT !.metadata = @ \cup {row}], NULL)
        ELSE Ok([d EXCEPT !.metadata = (@ \ hit) \cup
                              {[r EXCEPT !.value = value,
                                         !.data_type = data_type,
                                         !.updated_at = t] : r \in hit}], NULL)

(***************************************************************************)
(* A store call with its arguments resolved, and its execution.            *)
(***************************************************************************)
NoCall ==
    [op |-> "none", path |-> NoText, parent_id |-> NULL, root_id |-> NULL,
     name |-> NoText, type |-> NoText, depth |-> 0, blob |-> "",
     owner |-> NoText, key |-> NoText, value |-> NoText, data_type |-> NoText]

\* the statement a call executes and commits
Apply(d, t, a) ==
    CASE a.op = "data_source" ->
            InitializeDataSource(d, t, a.name, a.type, a.value, a.blob)
      [] a.op = "root_entity" ->
            InitializeRootEntity(d, t, a.root_id, a.name, a.type, a.path, a.blob)
      [] a.op = "hierarchy_node" ->
            GetOrCreateHierarchyNode(d, t, a.path, a.parent_id, a.root_id, a.name,
                                     a.type, a.depth, a.blob)
      [] a.op = "entity_type" ->
            GetOrCreateEntityType(d, t, a.name, a.type, a.value, a.blob)
      [] a.op = "entity" ->
            GetOrCreateEntity(d, t, a.path, a.parent_id, a.root_id, a.name, NULL,
                              NULL, NoText, a.type, a.blob)
      [] a.op = "metadata" ->
            AddMetadata(d, t, a.owner, a.parent_id, a.key, a.value, a.data_type)

\* the conflict key of a call, as the pair <<key, id>> recorded when it returns
KeyOf(a) ==
    CASE a.op = "data_source" -> <<a.name>>
      [] a.op = "root_entity" -> <<a.root_id, a.name>>
      [] a.op = "hierarchy_node" -> <<a.root_id, a.path>>
      [] a.op = "entity_type" -> <<a.name, a.type>>
      [] a.op = "entity" -> <<a.parent_id, a.name>>
      [] a.op = "metadata" -> <<a.owner, a.parent_id, a.key>>

Record(ret, a, res) ==
    IF res.err = "none" THEN [ret EXCEPT ![a.op] = @ \cup {<<KeyOf(a), res.ret>>}] ELSE ret

(***************************************************************************)
(* What a run discovers.                                                   *)
(***************************************************************************)
Configs ==
    {[name |-> "network_collector", description |-> "Network information collector"],
     [name |-> "test_collector", description |-> "Test network information collection"]}

\* which zerotier-cli / sudo gave no output, or its status and the listed networks
ZeroTierOutputs ==
    {[available |-> FALSE, online |-> FALSE, networks |-> <<>>],
     [available |-> TRUE, online |-> TRUE,
      networks |-> <<[id |-> "8056c2e21c000001", name |-> "home",
                      ips |-> <<"10.147.17.5", "10.147.17.6">>]>>]}

\* which tailscale gave no output or no JSON, or the parsed status
TailscaleOutputs ==
    {[available |-> FALSE, backend_state |-> "unknown", ip4 |-> "", ip6 |-> "",
      peers |-> <<>>],
     [available |-> TRUE, backend_state |-> "Running", ip4 |-> "100.64.0.1", ip6 |-> "",
      peers |-> <<[id |-> "nodekey1", host |-> "laptop", ips |-> <<"100.64.0.2">>]>>]}

\* the key files the two scanned directories hold, in scan order
SshKeyFiles ==
    {<<[dir |-> "/home/foomanchu8008/.ssh", name |-> "id_rsa", size |-> "1679",
        sha256 |-> "aa", has_pub |-> TRUE],
       [dir |-> "/root/.ssh", name |-> "id_rsa", size |-> "411",
       sha256 |-> "bb", has_pub |-> FALSE]>>}

LocalAddresses ==
    {<<[addr |-> "127.0.1.1", loopback |-> TRUE],
       [addr |-> "192.168.1.10", loopback |-> FALSE]>>}

Inputs ==
    [cfg : Configs, zt : ZeroTierOutputs, ts : TailscaleOutputs, ssh : SshKeyFiles,
     local_ips : LocalAddresses]

NoInput ==
    [cfg |-> [name |-> NoText, description |-> NoText],
     zt |-> [available |-> FALSE, online |-> FALSE, networks |-> <<>>],
     ts |-> [available |-> FALSE, backend_state |-> "unknown", ip4 |-> "", ip6 |-> "",
             peers |-> <<>>],
     ssh |-> <<>>, local_ips |-> <<>>]

(***************************************************************************)
(* NetworkCollector.collect(): the store calls of one run, in order.  A    *)
(* call names the local variable its result is bound to (dst) and the      *)
(* local variable that supplies its parent or owner id (parent_reg).       *)
(***************************************************************************)
Registers ==
    {"root_entity_id", "zerotier_node_id", "network_node_id", "network_entity_id",
     "tailscale_node_id", "tailscale_entity_id", "peer_node_id", "peer_entity_id",
     "ssh_node_id", "key_entity_id", "pub_key_entity_id", "ssh_entity_id"}

NoRegs == [r \in Registers |-> NULL]

RECURSIVE Flatten(_)
Flatten(ss) == IF ss = <<>> THEN <<>> ELSE Head(ss) \o Flatten(Tail(ss))

RECURSIVE Join(_)
Join(ss) == IF ss = <<>> THEN "" ELSE "," \o Head(ss) \o Join(Tail(ss))

DataSourceCall(cfg) ==
    [op |-> "data_source", dst |-> "", path |-> NoText, parent_reg |-> "",
     name |-> cfg.name, type |-> "network", depth |-> 0,
     blob |-> cfg.name \o "," \o cfg.description,
     owner |-> NoText, key |-> NoText, value |-> cfg.description, data_type |-> NoText]

RootEntityCall ==
    [op |-> "root_entity", dst |-> "root_entity_id", path |-> "network_root",
     parent_reg |-> "", name |-> "network_root", type |-> "network", depth |-> 0,
     blob |-> "type=network_root",
     owner |-> NoText, key |-> NoText, value |-> NoText, data_type |-> NoText]

NodeCall(dst, path, parent_reg, name, node_type, depth, properties) ==
    [op |-> "hierarchy_node", dst |-> dst, path |-> path, parent_reg |-> parent_reg,
     name |-> name, type |-> node_type, depth |-> depth, blob |-> properties,
     owner |-> NoText, key |-> NoText, value |-> NoText, data_type |-> NoText]

EntityCall(dst, path, parent_reg, name, content_type, content) ==
    [op |-> "entity", dst |-> dst, path |-> path, parent_reg |-> parent_reg,
     name |-> name, type |-> content_type, depth |-> 0, blob |-> content,
     owner |-> NoText, key |-> NoText, value |-> NoText, data_type |-> NoText]

MetadataCall(entity_type, owner_reg, key, value, data_type) ==
    [op |-> "metadata", dst |-> "", path |-> NoText, parent_reg |-> owner_reg,
     name |-> NoText, type |-> NoText, depth |-> 0, blob |-> "",
     owner |-> entity_type, key |-> key, value |-> value, data_type |-> data_type]

\* variant: the network node is not linked to the ZeroTier node
ZeroTierNetworkCallsUnlinked(n) ==
    LET details == n.id \o "," \o n.name \o Join(n.ips)
    IN  << NodeCall("network_node_id", "network_root/zerotier/" \o n.id,
                    "", n.name, "network", 2, details),
           EntityCall("network_entity_id", "network_root/zerotier/" \o n.id,
                      "network_node_id", "network_" \o n.id, "zerotier_network", details) >>
        \o [j \in 1..Len(n.ips) |->
              MetadataCall("entity", "network_entity_id", "ip_address", n.ips[j], "string")]

ZeroTierNetworkCalls(n) ==
    LET details == n.id \o "," \o n.name \o Join(n.ips)
    IN  << NodeCall("network_node_id", "network_root/zerotier/" \o n.id,
                    "zerotier_node_id", n.name, "network", 2, details),
           EntityCall("network_entity_id", "network_root/zerotier/" \o n.id,
                      "network_node_id", "network_" \o n.id, "zerotier_network", details) >>
        \o [j \in 1..Len(n.ips) |->
              MetadataCall("entity", "network_entity_id", "ip_address", n.ips[j], "string")]

\* variant: the status entry is written before the ZeroTier node
CollectZerotierInfoStatusFirst(zt) ==
    IF ~zt.available THEN <<>>
    ELSE << MetadataCall("hierarchy_node", "zerotier_node_id", "status",
                         IF zt.online THEN "online" ELSE "offline", "string"),
            NodeCall("zerotier_node_id", "network_root/zerotier", "", "ZeroTier",
                     "network_service", 1, IF zt.online THEN "online" ELSE "offline") >>
         \o Flatten([i \in 1..Len(zt.networks) |-> ZeroTierNetworkCalls(zt.networks[i])])

CollectZerotierInfo(zt) ==
    IF ~zt.available THEN <<>>
    ELSE << NodeCall("zerotier_node_id", "network_root/zerotier", "", "ZeroTier",
                     "network_service", 1, IF zt.online THEN "online" ELSE "offline"),
            MetadataCall("hierarchy_node", "zerotier_node_id", "status",
                         IF zt.online THEN "online" ELSE "offline", "string") >>
         \o Flatten([i \in 1..Len(zt.networks) |-> ZeroTierNetworkCalls(zt.networks[i])])

TailscalePeerCalls(p) ==
    << NodeCall("peer_node_id", "network_root/tailscale/peer_" \o p.id,
                "tailscale_node_id", p.host, "network_peer", 2, p.host \o Join(p.ips)),
       EntityCall("peer_entity_id", "network_root/tailscale/peer_" \o p.id,
                  "peer_node_id", "peer_" \o p.id, "tailscale_peer", p.host \o Join(p.ips)) >>
    \o [j \in 1..Len(p.ips) |->
          MetadataCall("entity", "peer_entity_id", "tailscale_ip", p.ips[j], "string")]

CollectTailscaleInfo(ts) ==
    IF ~ts.available THEN <<>>
    ELSE << NodeCall("tailscale_node_id", "network_root/tailscale", "", "Tailscale",
                     "network_service", 1, ts.backend_state),
            MetadataCall("hierarchy_node", "tailscale_node_id", "backend_state",
                         ts.backend_state, "string") >>
         \o (IF ts.ip4 # ""
             THEN << MetadataCall("hierarchy_node", "tailscale_node_id", "ipv4_address",
                                  ts.ip4, "string") >>
             ELSE <<>>)
         \o (IF ts.ip6 # ""
             THEN << MetadataCall("hierarchy_node", "tailscale_node_id", "ipv6_address",
                                  ts.ip6, "string") >>
             ELSE <<>>)
         \o << EntityCall("tailscale_entity_id", "network_root/tailscale",
                          "tailscale_node_id", "tailscale_service", "tailscale_service",
                          ts.backend_state) >>
         \o Flatten([i \in 1..Len(ts.peers) |-> TailscalePeerCalls(ts.peers[i])])

\* variant: the public key entity is stored under the private key entity
SshKeyCallsUnderKey(k) ==
    << EntityCall("key_entity_id", "network_root/ssh/" \o k.name, "ssh_node_id", k.name,
                  "ssh_key", k.dir \o "/" \o k.name \o "," \o k.size \o "," \o k.sha256),
       MetadataCall("entity", "key_entity_id", "key_type", "private", "string"),
       MetadataCall("entity", "key_entity_id", "size_bytes", k.size, "number") >>
    \o (IF k.has_pub
        THEN << EntityCall("pub_key_entity_id", "network_root/ssh/" \o k.name \o ".pub",
                           "key_entity_id", k.name \o ".pub", "ssh_public_key",
                           k.dir \o "/" \o k.name \o ".pub"),
                MetadataCall("entity", "key_entity_id", "public_key",
                             k.name \o ".pub", "string"),
                MetadataCall("entity", "pub_key_entity_id", "private_key",
                             k.name, "string") >>
        ELSE <<>>)

SshKeyCalls(k) ==
    << EntityCall("key_entity_id", "network_root/ssh/" \o k.name, "ssh_node_id", k.name,
                  "ssh_key", k.dir \o "/" \o k.name \o "," \o k.size \o "," \o k.sha256),
       MetadataCall("entity", "key_entity_id", "key_type", "private", "string"),
       MetadataCall("entity", "key_entity_id", "size_bytes", k.size, "number") >>
    \o (IF k.has_pub
        THEN << EntityCall("pub_key_entity_id", "network_root/ssh/" \o k.name \o ".pub",
                           "ssh_node_id", k.name \o ".pub", "ssh_public_key",
                           k.dir \o "/" \o k.name \o ".pub"),
                MetadataCall("entity", "key_entity_id", "public_key",
                             k.name \o ".pub", "string"),
                MetadataCall("entity", "pub_key_entity_id", "private_key",
                             k.name, "string") >>
        ELSE <<>>)

CollectSshInfo(keys, local_ips) ==
    LET ips == SelectSeq(local_ips, LAMBDA a : ~a.loopback)
    IN  << NodeCall("ssh_node_id", "network_root/ssh", "", "SSH", "security_service", 1,
                    "SSH key and connection information") >>
        \o Flatten([i \in 1..Len(keys) |-> SshKeyCalls(keys[i])])
        \o << EntityCall("ssh_entity_id", "network_root/ssh", "ssh_node_id", "ssh_service",
                         "ssh_service", "SSH service configuration") >>
        \o [j \in 1..Len(ips) |->
              MetadataCall("entity", "ssh_entity_id", "local_ip", ips[j].addr, "string")]

\* variant: a skipped ZeroTier sub-tree ends the run
CollectStopsAtSkip(inp) ==
    << DataSourceCall(inp.cfg), RootEntityCall >>
    \o (IF ~inp.zt.available THEN <<>>
        ELSE CollectZerotierInfo(inp.zt)
             \o CollectTailscaleInfo(inp.ts)
             \o CollectSshInfo(inp.ssh, inp.local_ips))

Collect(inp) ==
    << DataSourceCall(inp.cfg), RootEntityCall >>
    \o CollectZerotierInfo(inp.zt)
    \o CollectTailscaleInfo(inp.ts)
    \o CollectSshInfo(inp.ssh, inp.local_ips)

\* collect() calls _collect_zerotier_info, _collect_tailscale_info and
\* _collect_ssh_info in this order, after its two initialization calls
SubTrees == {"zerotier", "tailscale", "ssh"}

\* the number of the first store call a sub-tree makes, if it makes any
FirstCall(inp, tree) ==
    CASE tree = "zerotier" -> 3
      [] tree = "tailscale" -> 3 + Len(CollectZerotierInfo(inp.zt))
      [] tree = "ssh" ->
            3 + Len(CollectZerotierInfo(inp.zt)) + Len(CollectTailscaleInfo(inp.ts))

\* the number of store calls a sub-tree makes
CallsOf(inp, tree) ==
    CASE tree = "zerotier" -> Len(CollectZerotierInfo(inp.zt))
      [] tree = "tailscale" -> Len(CollectTailscaleInfo(inp.ts))
      [] tree = "ssh" -> Len(CollectSshInfo(inp.ssh, inp.local_ips))

\* the part of collect() that makes the i-th store call
TreeAt(inp, i) ==
    IF i < 3 THEN "init"
    ELSE CHOOSE tree \in SubTrees :
            FirstCall(inp, tree) <= i /\ i < FirstCall(inp, tree) + CallsOf(inp, tree)

\* the number of store calls made for the first k key files
RECURSIVE KeyCallsBefore(_, _)
KeyCallsBefore(keys, k) ==
    IF k = 0 THEN 0 ELSE Len(SshKeyCalls(keys[k])) + KeyCallsBefore(keys, k - 1)

\* where the run goes on when the i-th store call raises: behind the try block
\* of its key file ("except Exception as e: print(...)" of the key loop),
\* behind the loop over the local addresses, or nowhere (0) when the call is
\* in no try block
ExceptTarget(inp, i) ==
    LET s == FirstCall(inp, "ssh")
        n == Len(inp.ssh)
        blocks == {k \in 1..n : /\ s + KeyCallsBefore(inp.ssh, k - 1) < i
                                /\ i <= s + KeyCallsBefore(inp.ssh, k)}
        service == s + KeyCallsBefore(inp.ssh, n) + 1
    IN  IF blocks # {}
        THEN s + KeyCallsBefore(inp.ssh, CHOOSE k \in blocks : TRUE) + 1
        ELSE IF i > service THEN Len(Collect(inp)) + 1 ELSE 0

\* the arguments of a call, with the collector's fields and locals read
Resolve(c, dsid, R) ==
    [op |-> c.op, path |-> c.path,
     parent_id |-> IF c.parent_reg = "" THEN NULL ELSE R[c.parent_reg],
     root_id |-> CASE c.op = "root_entity" -> dsid
                   [] c.op \in {"hierarchy_node", "entity"} -> R["root_entity_id"]
                   [] OTHER -> NULL,
     name |-> c.name, type |-> c.type, depth |-> c.depth, blob |-> c.blob,
     owner |-> c.owner, key |-> c.key, value |-> c.value, data_type |-> c.data_type]

\* the collector's state S = [db, dsid, regs, err] after a call returned res:
\* self.data_source_id = ..., root_entity_id = ..., zerotier_node_id = ...
Bind(S, c, res) ==
    [db |-> res.db,
     dsid |-> IF c.op = "data_source" /\ res.err = "none" THEN res.ret ELSE S.dsid,
     regs |-> IF c.dst # "" /\ res.err = "none"
              THEN [S.regs EXCEPT ![c.dst] = res.ret] ELSE S.regs,
     err |-> res.err]

\* one store call of a run
StepCall(S, t, c) ==
    CHOOSE N \in {Bind(S, c, res) : res \in {Apply(S.db, t, Resolve(c, S.dsid, S.regs))}} : TRUE

\* the calls of a run from the i-th on, until the first that raises
RECURSIVE RunFrom(_, _, _, _)
RunFrom(S, t, calls, i) ==
    CHOOSE N \in {IF i > Len(calls) \/ x.err # "none" THEN x
                  ELSE RunFrom(StepCall(x, t, calls[i]), t, calls, i + 1) : x \in {S}} : TRUE

\* the store an uninterrupted run of collect() leaves
CollectFrom(d, t, inp) ==
    RunFrom([db |-> d, dsid |-> NULL, regs |-> NoRegs, err |-> "none"], t, Collect(inp), 1).db

(***************************************************************************)
(* The entry point main(): one process per run.                            *)
(***************************************************************************)
Ended == {"idle", "exit_success", "exit_success_errors", "exit_failure", "exit_error", "killed"}

\* what the store holds when a collector is constructed: nothing, or what an
\* earlier run left
SeedInput ==
    [cfg |-> [name |-> "network_collector", description |-> "Network information collector"],
     zt |-> [available |-> TRUE, online |-> TRUE,
             networks |-> <<[id |-> "8056c2e21c000001", name |-> "home",
                             ips |-> <<"10.147.17.5", "10.147.17.6">>]>>],
     ts |-> [available |-> FALSE, backend_state |-> "unknown", ip4 |-> "", ip6 |-> "",
             peers |-> <<>>],
     ssh |-> CHOOSE k \in SshKeyFiles : TRUE,
     local_ips |-> CHOOSE a \in LocalAddresses : TRUE]

SeedStores == {EmptyDb, CollectFrom(EmptyDb, 0, SeedInput)}

\* the <<conflict key, id>> pairs the rows of a store were returned with
ReturnedOf(d) ==
    [data_source |-> {<< <<r.name>>, r.id >> : r \in d.data_sources},
     root_entity |-> {<< <<r.source_id, r.name>>, r.id >> : r \in d.root_entities},
     hierarchy_node |-> {<< <<r.root_entity_id, r.path>>, r.id >> : r \in d.hierarchy_nodes},
     entity_type |-> {<< <<r.name, r.category>>, r.id >> : r \in d.entity_types},
     entity |-> {<< <<r.parent_node_id, r.name>>, r.id >> : r \in d.entities},
     metadata |-> {<< <<r.entity_type, r.entity_id, r.key>>, NULL >> : r \in d.metadata}]

Init ==
    /\ now = 0
    /\ idGaps \in BOOLEAN
    /\ db \in SeedStores
    /\ conns = {}
    /\ connection = NULL
    /\ data_source_id = NULL
    /\ pc = "idle"
    /\ ip = 1
    /\ regs = NoRegs
    /\ input = NoInput
    /\ prog = <<>>
    /\ runs = 0
    /\ last = [call |-> NoCall, ret |-> NULL, err |-> "none", hit |-> FALSE]
    /\ returned = ReturnedOf(db)
    /\ dbStart = db
    /\ prevStart = db
    /\ prevInput = NoInput
    /\ prevOutcome = "idle"
    /\ caught = FALSE
    /\ faults = 0

\* main(): NetworkCollector(db_config, source_config), then collector.collect();
\* each process runs at a later time of the store's clock than the one before
StartMain ==
    /\ pc \in Ended
    /\ runs < MaxRuns
    /\ \E inp \in Inputs : input' = inp /\ prog' = Collect(inp)
    /\ runs' = runs + 1
    /\ conns' = {}
    /\ connection' = NULL
    /\ data_source_id' = NULL
    /\ regs' = NoRegs
    /\ ip' = 1
    /\ pc' = "connect"
    /\ dbStart' = db
    /\ prevStart' = dbStart
    /\ prevInput' = input
    /\ prevOutcome' = pc
    /\ now' = now + 1
    /\ caught' = FALSE
    /\ UNCHANGED <<db, idGaps, last, returned, faults>>

\* variant: a failed connection raises out of collect()
ConnectToDbRaises ==
    /\ pc = "connect"
    /\ \/ /\ connection' = runs
          /\ conns' = conns \cup {runs}
          /\ pc' = "collect"
       \/ /\ pc' = "exit_error"
          /\ UNCHANGED <<connection, conns>>
    /\ UNCHANGED <<db, now, idGaps, data_source_id, ip, regs, input, prog, runs, last,
                   returned, dbStart, prevStart, prevInput, prevOutcome,
                   caught, faults>>

\* collect(): if not self.connect_to_db(): return False
ConnectToDb ==
    /\ pc = "connect"
    /\ \/ /\ connection' = runs
          /\ conns' = conns \cup {runs}
          /\ pc' = "collect"
       \/ /\ pc' = "returned_false"
          /\ UNCHANGED <<connection, conns>>
    /\ UNCHANGED <<db, now, idGaps, data_source_id, ip, regs, input, prog, runs, last,
                   returned, dbStart, prevStart, prevInput, prevOutcome,
                   caught, faults>>

\* whether a call finds a row with its conflict key
Hits(d, a) ==
    CASE a.op = "data_source" -> \E r \in d.data_sources : DataSourceConflict(r, a.name)
      [] a.op = "root_entity" ->
            \E r \in d.root_entities : RootEntityConflict(r, a.root_id, a.name)
      [] a.op = "hierarchy_node" ->
            \E r \in d.hierarchy_nodes : HierarchyNodeConflict(r, a.root_id, a.path)
      [] a.op = "entity_type" ->
            \E r \in d.entity_types : EntityTypeConflict(r, a.name, a.type)
      [] a.op = "entity" -> \E r \in d.entities : EntityConflict(r, a.parent_id, a.name)
      [] a.op = "metadata" ->
            \E r \in d.metadata : MetadataConflict(r, a.owner, a.parent_id, a.key)
      [] OTHER -> FALSE

\* the next store call of collect().  The statement is executed and committed,
\* or cursor.execute raises (the storage is unreachable or refuses the
\* statement) and nothing is written.  An error raised inside a try block of
\* _collect_ssh_info is printed there and the run goes on behind the block;
\* any other error leaves collect() and main().
CollectCall(op) ==
    /\ pc = "collect"
    /\ ip <= Len(prog)
    /\ prog[ip].op = op
    /\ \E fault \in {FALSE} \cup {faults < MaxFaults} :
         LET c == prog[ip]
             a == Resolve(c, data_source_id, regs)
             res == IF fault THEN Raise(db, "StorageError") ELSE Apply(db, now, a)
             S == Bind([db |-> db, dsid |-> data_source_id, regs |-> regs,
                        err |-> "none"], c, res)
             handler == IF res.err = "none" THEN 0 ELSE ExceptTarget(input, ip)
         IN  /\ db' = S.db
             /\ data_source_id' = S.dsid
             /\ regs' = S.regs
             /\ last' = [call |-> a, ret |-> res.ret, err |-> res.err, hit |-> Hits(db, a)]
             /\ returned' = Record(returned, a, res)
             /\ ip' = IF handler > 0 THEN handler ELSE ip + 1
             /\ caught' = (caught \/ handler > 0)
             /\ faults' = IF fault THEN faults + 1 ELSE faults
             /\ pc' = IF res.err = "none" \/ handler > 0 THEN pc ELSE "exit_error"
    /\ UNCHANGED <<now, idGaps, conns, connection, input, prog, runs, dbStart,
                   prevStart, prevInput, prevOutcome>>

CallInitializeDataSource == CollectCall("data_source")
CallInitializeRootEntity == CollectCall("root_entity")
CallGetOrCreateHierarchyNode == CollectCall("hierarchy_node")
CallGetOrCreateEntity == CollectCall("entity")
CallAddMetadata == CollectCall("metadata")

\* collect(): print("Network information collection completed"); return True.
\* The position records whether the run printed an error on its way.
ReturnTrue ==
    /\ pc = "collect"
    /\ ip > Len(prog)
    /\ pc' = IF caught THEN "returned_true_errors" ELSE "returned_true"
    /\ UNCHANGED <<db, now, idGaps, conns, connection, data_source_id, ip, regs, input,
                   prog, runs, last, returned, dbStart, prevStart, prevInput, prevOutcome,
                   caught, faults>>

\* main(): prints the summary and returns
MainExit ==
    /\ pc \in {"returned_true", "returned_true_errors", "returned_false"}
    /\ pc' = CASE pc = "returned_true" -> "exit_success"
              [] pc = "returned_true_errors" -> "exit_success_errors"
              [] OTHER -> "exit_failure"
    /\ UNCHANGED <<db, now, idGaps, conns, connection, data_source_id, ip, regs, input,
                   prog, runs, last, returned, dbStart, prevStart, prevInput, prevOutcome,
                   caught, faults>>

\* the process is interrupted between two store calls
Kill ==
    /\ pc = "collect"
    /\ runs < MaxRuns
    /\ faults < MaxFaults
    /\ faults' = faults + 1
    /\ pc' = "killed"
    /\ UNCHANGED <<db, now, idGaps, conns, connection, data_source_id, ip, regs, input,
                   prog, runs, last, returned, dbStart, prevStart, prevInput, prevOutcome,
                   caught>>

Next ==
    \/ StartMain
    \/ ConnectToDb
    \/ CallInitializeDataSource
    \/ CallInitializeRootEntity
    \/ CallGetOrCreateHierarchyNode
    \/ CallGetOrCreateEntity
    \/ CallAddMetadata
    \/ ReturnTrue
    \/ MainExit
    \/ Kill

Spec == Init /\ [][Next]_vars

(***************************************************************************)
(* The test script test_collector(): connect_to_db(), then collect(), then *)
(* close_connection(), on one collector.                                   *)
(***************************************************************************)
\* test_collector(): NetworkCollector(db_config, source_config) with the
\* source_config of the script
StartTest ==
    /\ pc \in Ended \cup {"test_done"}
    /\ runs < MaxRuns
    /\ \E inp \in {i \in Inputs : i.cfg.name = "test_collector"} :
          input' = inp /\ prog' = Collect(inp)
    /\ runs' = runs + 1
    /\ conns' = {}
    /\ connection' = NULL
    /\ data_source_id' = NULL
    /\ regs' = NoRegs
    /\ ip' = 1
    /\ pc' = "test_connect"
    /\ dbStart' = db
    /\ prevStart' = dbStart
    /\ prevInput' = input
    /\ prevOutcome' = pc
    /\ now' = now + 1
    /\ caught' = FALSE
    /\ UNCHANGED <<db, idGaps, last, returned, faults>>

\* if collector.connect_to_db(): ... collector.collect() ... else: print(...)
\* The connection it opens is another one than collect() opens afterwards.
TestConnectToDb ==
    /\ pc = "test_connect"
    /\ \/ /\ connection' = runs + MaxRuns
          /\ conns' = conns \cup {runs + MaxRuns}
          /\ pc' = "connect"
       \/ /\ pc' = "test_connect_failed"
          /\ UNCHANGED <<connection, conns>>
    /\ UNCHANGED <<db, now, idGaps, data_source_id, ip, regs, input, prog, runs, last,
                   returned, dbStart, prevStart, prevInput, prevOutcome, caught, faults>>

\* collector.close_connection(): if self.connection: self.connection.close()
TestCloseConnection ==
    /\ pc \in {"returned_true", "returned_true_errors", "returned_false",
               "test_connect_failed"}
    /\ conns' = conns \ {connection}
    /\ pc' = "test_done"
    /\ UNCHANGED <<db, now, idGaps, connection, data_source_id, ip, regs, input, prog,
                   runs, last, returned, dbStart, prevStart, prevInput, prevOutcome,
                   caught, faults>>

NextTest ==
    \/ StartTest
    \/ TestConnectToDb
    \/ ConnectToDb
    \/ CallInitializeDataSource
    \/ CallInitializeRootEntity
    \/ CallGetOrCreateHierarchyNode
    \/ CallGetOrCreateEntity
    \/ CallAddMetadata
    \/ ReturnTrue
    \/ TestCloseConnection

SpecTest == Init /\ [][NextTest]_vars

(***************************************************************************)
(* Direct use of BaseCollector: any sequence of the six upsert operations  *)
(* on an open connection.                                                  *)
(***************************************************************************)
Tick ==
    /\ pc = "idle"
    /\ now < MaxTime
    /\ now' = now + 1
    /\ UNCHANGED <<db, idGaps, conns, connection, data_source_id, pc, ip, regs, input,
                   prog, runs, last, returned, dbStart, prevStart, prevInput, prevOutcome,
                   caught, faults>>

\* connect_to_db() succeeds
StoreConnect ==
    /\ pc = "idle"
    /\ connection \notin conns
    /\ connection' = 1
    /\ conns' = conns \cup {1}
    /\ UNCHANGED <<db, now, idGaps, data_source_id, pc, ip, regs, input, prog, runs, last,
                   returned, dbStart, prevStart, prevInput, prevOutcome,
                   caught, faults>>

\* close_connection(): closes the connection if there is one; the attribute
\* keeps naming the closed connection
CloseConnection ==
    /\ pc = "idle"
    /\ connection \in conns
    /\ conns' = conns \ {connection}
    /\ UNCHANGED <<db, now, idGaps, connection, data_source_id, pc, ip, regs, input, prog,
                   runs, last, returned, dbStart, prevStart, prevInput, prevOutcome,
                   caught, faults>>

\* a call with arguments a through the open connection
StoreCall(a) ==
    /\ pc = "idle"
    /\ connection \in conns
    /\ ip <= MaxCalls
    /\ LET res == Apply(db, now, a)
       IN  /\ db' = res.db
           /\ data_source_id' =
                 IF a.op = "data_source" /\ res.err = "none" THEN res.ret ELSE data_source_id
           /\ last' = [call |-> a, ret |-> res.ret, err |-> res.err, hit |-> Hits(db, a)]
           /\ returned' = Record(returned, a, res)
    /\ ip' = ip + 1
    /\ UNCHANGED <<now, idGaps, conns, connection, pc, regs, input, prog, runs, dbStart,
                   prevStart, prevInput, prevOutcome,
                   caught, faults>>

Descriptions == {"Network information collector", "Test network information collection"}
NodePaths == {"network_root/zerotier", "network_root/zerotier/8056c2e21c000001"}
EntityNames == {"network_8056c2e21c000001"}
MetadataValues ==
    {[value |-> "10.147.17.6", data_type |-> "string"],
     [value |-> "1679", data_type |-> "number"]}

StoreInitializeDataSource ==
    \E cfg \in Configs, description \in Descriptions :
        StoreCall([NoCall EXCEPT !.op = "data_source", !.name = cfg.name,
                                 !.type = "network", !.value = description,
                                 !.blob = cfg.name \o "," \o cfg.description])

StoreInitializeRootEntity ==
    \E entity_type \in {"network", "filesystem"} :
        StoreCall([NoCall EXCEPT !.op = "root_entity", !.root_id = data_source_id,
                                 !.name = "network_root", !.type = entity_type,
                                 !.path = "network_root", !.blob = "type=network_root"])

StoreGetOrCreateHierarchyNode ==
    \E path \in NodePaths, parent_id \in {NULL, 1, 999}, root_entity_id \in {1, 2} :
        StoreCall([NoCall EXCEPT !.op = "hierarchy_node", !.path = path,
                                 !.parent_id = parent_id, !.root_id = root_entity_id,
                                 !.name = "ZeroTier", !.type = "network_service",
                                 !.depth = IF parent_id = NULL THEN 1 ELSE 2,
                                 !.blob = "online"])

StoreGetOrCreateEntityType ==
    \E mime_type \in {NoText, "text/plain"} :
        StoreCall([NoCall EXCEPT !.op = "entity_type", !.name = "ssh_key",
                                 !.type = "file", !.value = mime_type, !.blob = NoText])

StoreGetOrCreateEntity ==
    \E path \in NodePaths, parent_node_id \in {1, 2}, root_entity_id \in {1, 2},
       name \in EntityNames :
        StoreCall([NoCall EXCEPT !.op = "entity", !.path = path,
                                 !.parent_id = parent_node_id, !.root_id = root_entity_id,
                                 !.name = name, !.type = "zerotier_network",
                                 !.blob = "details"])

StoreAddMetadata ==
    \E entity_type \in {"hierarchy_node", "entity"}, entity_id \in {1, 999},
       v \in MetadataValues :
        StoreCall([NoCall EXCEPT !.op = "metadata", !.owner = entity_type,
                                 !.parent_id = entity_id, !.key = "ip_address",
                                 !.value = v.value, !.data_type = v.data_type])

NextStore ==
    \/ Tick
    \/ StoreConnect
    \/ CloseConnection
    \/ StoreInitializeDataSource
    \/ StoreInitializeRootEntity
    \/ StoreGetOrCreateHierarchyNode
    \/ StoreGetOrCreateEntityType
    \/ StoreGetOrCreateEntity
    \/ StoreAddMetadata

SpecStore == Init /\ [][NextStore]_vars

(***************************************************************************)
(* Views of the store used by the properties.                              *)
(***************************************************************************)
NoStamp(r) == [f \in DOMAIN r \ {"updated_at"} |-> r[f]]

\* the rows with their identifiers and non-timestamp fields
View(d) ==
    [data_sources |-> {NoStamp(r) : r \in d.data_sources},
     root_entities |-> {NoStamp(r) : r \in d.root_entities},
     hierarchy_nodes |-> {NoStamp(r) : r \in d.hierarchy_nodes},
     entity_types |-> {NoStamp(r) : r \in d.entity_types},
     entities |-> {NoStamp(r) : r \in d.entities},
     metadata |-> {NoStamp(r) : r \in d.metadata}]

SourceKey(d, id) ==
    IF \E r \in d.data_sources : r.id = id
    THEN (CHOOSE r \in d.data_sources : r.id = id).name ELSE "?"

RootKey(d, id) ==
    IF \E r \in d.root_entities : r.id = id
    THEN LET r == CHOOSE x \in d.root_entities : x.id = id
         IN  SourceKey(d, r.source_id) \o "|" \o r.name
    ELSE "?"

NodeKey(d, id) ==
    IF \E r \in d.hierarchy_nodes : r.id = id
    THEN LET r == CHOOSE x \in d.hierarchy_nodes : x.id = id
         IN  RootKey(d, r.root_entity_id) \o "|" \o r.path
    ELSE IF id = NULL THEN NoText ELSE "?"

EntityKey(d, id) ==
    IF \E r \in d.entities : r.id = id
    THEN LET r == CHOOSE x \in d.entities : x.id = id
         IN  NodeKey(d, r.parent_node_id) \o "|" \o r.name
    ELSE "?"

\* the rows with every identifier replaced by the conflict key of the row it
\* identifies, and the number of rows of each relation
Canon(d) ==
    [data_sources |->
        {[name |-> r.name, source_type |-> r.source_type, description |-> r.description,
          connection_info |-> r.connection_info] : r \in d.data_sources},
     root_entities |->
        {[source |-> SourceKey(d, r.source_id), name |-> r.name,
          entity_type |-> r.entity_type, path |-> r.path, metadata |-> r.metadata]
            : r \in d.root_entities},
     hierarchy_nodes |->
        {[root |-> RootKey(d, r.root_entity_id), path |-> r.path,
          path_hash |-> r.path_hash, parent |-> NodeKey(d, r.parent_id), name |-> r.name,
          node_type |-> r.node_type, depth |-> r.depth, properties |-> r.properties]
            : r \in d.hierarchy_nodes},
     entities |->
        {[parent |-> NodeKey(d, r.parent_node_id), name |-> r.name, path |-> r.path,
          path_hash |-> r.path_hash, root |-> RootKey(d, r.root_entity_id),
          size |-> r.size, content_hash |-> r.content_hash,
          content_type |-> r.content_type, content |-> r.content] : r \in d.entities},
     metadata |->
        {[entity_type |-> r.entity_type,
          owner |-> IF r.entity_type = "entity" THEN EntityKey(d, r.entity_id)
                    ELSE NodeKey(d, r.entity_id),
          key |-> r.key, value |-> r.value, data_type |-> r.data_type] : r \in d.metadata},
     rows |-> <<Cardinality(d.data_sources), Cardinality(d.root_entities),
               Cardinality(d.hierarchy_nodes), Cardinality(d.entities),
               Cardinality(d.metadata)>>]

RowsOf(d, op) ==
    CASE op = "data_source" -> d.data_sources
      [] op = "root_entity" -> d.root_entities
      [] op = "hierarchy_node" -> d.hierarchy_nodes
      [] op = "entity_type" -> d.entity_types
      [] op = "entity" -> d.entities

\* row r has the conflict key and the non-key values of call a
HoldsCall(r, a) ==
    CASE a.op = "data_source" ->
            /\ r.name = a.name /\ r.source_type = a.type /\ r.description = a.value
            /\ r.connection_info = JsonOrNone(a.blob)
      [] a.op = "root_entity" ->
            /\ r.source_id = a.root_id /\ r.name = a.name /\ r.entity_type = a.type
            /\ r.path = a.path /\ r.metadata = JsonOrNone(a.blob)
      [] a.op = "hierarchy_node" ->
            /\ r.root_entity_id = a.root_id /\ r.path = a.path
            /\ r.parent_id = a.parent_id /\ r.name = a.name /\ r.node_type = a.type
            /\ r.depth = a.depth /\ r.properties = JsonOrNone(a.blob)
      [] a.op = "entity_type" ->
            /\ r.name = a.name /\ r.category = a.type /\ r.mime_type = a.value
            /\ r.description = a.blob
      [] a.op = "entity" ->
            /\ r.parent_node_id = a.parent_id /\ r.name = a.name /\ r.path = a.path
            /\ r.path_hash = Sha256(a.path) /\ r.root_entity_id = a.root_id
            /\ r.content_type = a.type /\ r.content = JsonOrNone(a.blob)

\* this step is a store call
IsCall == ip' = ip + 1

(***************************************************************************)
(* Properties.                                                             *)
(***************************************************************************)

\* C1: when collect() has returned True in a run whose input is that of the
\* previous run, and the previous run completed, the store holds exactly the
\* rows it held after the previous run: the same identifiers and the same
\* non-timestamp field values in all six relations.
C1_Idempotence ==
    (pc = "returned_true" /\ prevOutcome = "exit_success" /\ prevInput = input)
        => View(db) = View(dbStart)

\* a second complete run with the same input, ZeroTier and Tailscale data
\* included, has rewritten the rows (their timestamps differ)
C1_Witness ==
    /\ pc = "returned_true" /\ prevOutcome = "exit_success" /\ prevInput = input
    /\ input.zt.available /\ input.ts.available
    /\ db # dbStart

\* C2: in every state reached by any sequence of the six upsert operations no
\* two rows of a relation share its conflict key.
C2_Uniqueness ==
    /\ \A r1, r2 \in db.data_sources : r1.name = r2.name => r1 = r2
    /\ \A r1, r2 \in db.root_entities :
          (r1.source_id = r2.source_id /\ r1.name = r2.name) => r1 = r2
    /\ \A r1, r2 \in db.hierarchy_nodes :
          (r1.root_entity_id = r2.root_entity_id /\ r1.path = r2.path) => r1 = r2
    /\ \A r1, r2 \in db.entity_types :
          (r1.name = r2.name /\ r1.category = r2.category) => r1 = r2
    /\ \A r1, r2 \in db.entities :
          (r1.parent_node_id = r2.parent_node_id /\ r1.name = r2.name) => r1 = r2
    /\ \A r1, r2 \in db.metadata :
          (r1.entity_type = r2.entity_type /\ r1.entity_id = r2.entity_id
             /\ r1.key = r2.key) => r1 = r2

\* an entity upsert has hit an existing (parent_node_id, name) with another path
C2_Witness ==
    /\ last.call.op = "entity" /\ last.hit /\ last.err = "none"
    /\ last.call.path = "network_root/zerotier"
    /\ Cardinality(db.entities) >= 2

\* C3: an upsert called with a conflict key that already exists returns the
\* identifier every earlier upsert of that key returned, allocates no new row
\* identifier, and leaves the row holding the non-key values of this call.
C3_ConflictOverwrite ==
    [][ (IsCall /\ last'.hit /\ last'.err = "none" /\ last'.call.op # "metadata")
          => LET a == last'.call
             IN  /\ \E p \in returned[a.op] : p[1] = KeyOf(a)
                 /\ \A p \in returned[a.op] : p[1] = KeyOf(a) => p[2] = last'.ret
                 /\ Ids(RowsOf(db', a.op)) = Ids(RowsOf(db, a.op))
                 /\ \E r \in RowsOf(db', a.op) : r.id = last'.ret /\ HoldsCall(r, a) ]_vars

\* initialize_data_source has been called for the stored name with a changed
\* description
C3_Witness ==
    /\ last.call.op = "data_source" /\ last.hit /\ last.err = "none"
    /\ last.call.name = "network_collector"
    /\ last.call.value = "Test network information collection"
    /\ \E r \in db.data_sources : r.id = last.ret /\ r.description = last.call.value

\* C4: after an add_metadata call there is exactly one row for its (owner
\* kind, owner id, key), holding the value and data_type of that call; the
\* rows of every other triple are as before, and no other step changes the
\* metadata relation.
C4_MetadataOverwrite ==
    [][ IF IsCall /\ last'.call.op = "metadata"
        THEN LET a == last'.call
                 Mine(r) == MetadataConflict(r, a.owner, a.parent_id, a.key)
             IN  /\ Cardinality({r \in db'.metadata : Mine(r)}) = 1
                 /\ \A r \in db'.metadata :
                       Mine(r) => r.value = a.value /\ r.data_type = a.data_type
                 /\ {r \in db'.metadata : ~Mine(r)} = {r \in db.metadata : ~Mine(r)}
        ELSE db'.metadata = db.metadata ]_vars

\* add_metadata has replaced a string value by a number for an existing triple
C4_Witness ==
    /\ last.call.op = "metadata" /\ last.hit
    /\ last.call.data_type = "number"
    /\ Cardinality(db.metadata) >= 2

\* C5 as stated: after a killed run and a complete re-run with the same input
\* the store equals, identifiers included, the store a single uninterrupted
\* run leaves from the store the killed run started from.
C5_SameIdentifiers ==
    (pc = "returned_true" /\ prevOutcome = "killed" /\ prevInput = input)
        => View(db) = View(CollectFrom(prevStart, now, input))

\* C5 amended: after a killed run and a complete re-run with the same input
\* the store holds the rows a single uninterrupted run leaves: the same
\* conflict keys with the same non-timestamp values, references compared by
\* the key of the row they identify, and as many rows; the rows the store held
\* before the re-run keep their identifiers.
C5_Convergence ==
    (pc = "returned_true" /\ prevOutcome = "killed" /\ prevInput = input)
        => /\ Canon(db) = Canon(CollectFrom(prevStart, now, input))
           /\ \A op \in {"data_source", "root_entity", "hierarchy_node", "entity"} :
                 ReturnedOf(dbStart)[op] \subseteq ReturnedOf(db)[op]

\* a run was killed after it had committed some but not all of its rows, and
\* the re-run with the same input has returned
C5_Witness ==
    /\ pc = "returned_true" /\ prevOutcome = "killed" /\ prevInput = input
    /\ dbStart # prevStart
    /\ Cardinality(dbStart.entities) < Cardinality(db.entities)

\* C6 as stated: add_metadata for an owner id that no upsert of that kind has
\* returned fails with DanglingReference and writes no row.
C6_DanglingReference ==
    (/\ last.call.op = "metadata"
     /\ \A p \in returned[last.call.owner] : p[2] # last.call.parent_id)
        => /\ last.err = "DanglingReference"
           /\ ~\E r \in db.metadata :
                 r.entity_type = last.call.owner /\ r.entity_id = last.call.parent_id

\* C7: get_or_create_hierarchy_node with a parent_id or root_entity_id that
\* identifies no row fails with ConstraintViolation and leaves the
\* hierarchy_nodes relation as it was.
C7_ForeignKey ==
    [][ (/\ IsCall /\ last'.call.op = "hierarchy_node"
         /\ \/ last'.call.parent_id # NULL
               /\ last'.call.parent_id \notin Ids(db.hierarchy_nodes)
            \/ last'.call.root_id \notin Ids(db.root_entities))
          => /\ last'.err = "ConstraintViolation"
             /\ db'.hierarchy_nodes = db.hierarchy_nodes ]_vars

\* a node upsert named a missing parent for a stored (root_entity_id, path)
C7_Witness ==
    /\ last.call.op = "hierarchy_node" /\ last.hit
    /\ last.call.parent_id = 999
    /\ last.err = "ConstraintViolation"

C9_TreePerRoot ==
    /\ \A n \in db.hierarchy_nodes :
          n.parent_id # NULL
            => \E q \in db.hierarchy_nodes :
                  q.id = n.parent_id /\ q.root_entity_id = n.root_entity_id
    /\ \A e \in db.entities :
          \E q \in db.hierarchy_nodes :
              q.id = e.parent_node_id /\ q.root_entity_id = e.root_entity_id

\* an entity upsert has hit an existing row while the store holds two roots
C9_Witness ==
    /\ last.call.op = "entity" /\ last.hit /\ last.err = "none"
    /\ Cardinality(db.root_entities) = 2
    /\ last.call.root_id = 2

\* C10 as stated: when main() has ended, the connection the run opened has
\* been released.
C10_Shutdown ==
    pc \in {"exit_success", "exit_failure", "exit_error"} => connection \notin conns

\* whether a sub-tree has made its first store call in this run
Attempted(tree) == CallsOf(input, tree) > 0 /\ ip > FirstCall(input, tree)

\* whether this run has written the node with this path under its root entity
WroteNode(path) ==
    \E n \in db.hierarchy_nodes :
        n.path = path /\ n.root_entity_id = regs["root_entity_id"] /\ n.updated_at = now

\* C11: when collect() returns True, the SSH sub-tree has been attempted and
\* has written its node, whether or not ZeroTier and Tailscale were
\* reachable; Tailscale has been attempted and has written its node whenever
\* it was reachable, whether or not ZeroTier was; an unreachable domain has
\* made no store call and written no node.
C11_Isolation ==
    pc \in {"returned_true", "returned_true_errors"}
        => /\ Attempted("ssh") /\ WroteNode("network_root/ssh")
           /\ input.ts.available
                 => Attempted("tailscale") /\ WroteNode("network_root/tailscale")
           /\ input.zt.available
                 => Attempted("zerotier") /\ WroteNode("network_root/zerotier")
           /\ ~input.ts.available
                 => ~Attempted("tailscale") /\ ~WroteNode("network_root/tailscale")
           /\ ~input.zt.available
                 => ~Attempted("zerotier") /\ ~WroteNode("network_root/zerotier")

\* a run in which ZeroTier was unreachable and Tailscale reachable has
\* returned True, on a store that holds the ZeroTier node of an earlier run
C11_Witness ==
    /\ pc = "returned_true"
    /\ ~input.zt.available /\ input.ts.available
    /\ WroteNode("network_root/tailscale") /\ WroteNode("network_root/ssh")
    /\ \E n \in db.hierarchy_nodes :
          n.path = "network_root/zerotier" /\ n.root_entity_id = regs["root_entity_id"]

\* C12 as stated: when a store call of the ZeroTier or Tailscale sub-tree has
\* raised and the run has ended, the SSH sub-tree that follows it in collect()
\* has been attempted.
C12_Containment ==
    (pc = "exit_error" /\ TreeAt(input, ip - 1) \in {"zerotier", "tailscale"})
        => Attempted("ssh")

\* C13: a connect_to_db() that opens no connection makes collect() return
\* False, without an error leaving it, with the store as it was and no store
\* call made; main() then ends with the store still untouched.
C13_ConnectFailure ==
    [][ /\ (pc = "connect" /\ connection' = NULL)
            => (pc' = "returned_false" /\ db' = db /\ ip' = 1 /\ last' = last)
        /\ pc = "returned_false"
            => (pc' = "exit_failure" /\ db' = db /\ ip' = 1 /\ last' = last) ]_vars

\* the second run could not connect and main() has ended, on a store the
\* first run filled
C13_Witness ==
    /\ pc = "exit_failure" /\ runs = MaxRuns
    /\ connection = NULL /\ ip = 1
    /\ db = dbStart /\ db.entities # {}
    /\ prevOutcome = "exit_success"

\* C14 as stated: no run ends with an error leaving collect().
C14_NoEscape == pc # "exit_error"

\* a step of a run that makes one store call
RunCall == pc = "collect" /\ ip' > ip

\* C15: no step changes the root_entity_id or the path of a stored node, and
\* a node upsert whose path is stored under another root only inserts a row
\* with a new identifier under its own root, leaving every stored node as it was.
C15_RootImmutable ==
    [][ /\ \A r \in db.hierarchy_nodes :
              \E q \in db'.hierarchy_nodes :
                  q.id = r.id /\ q.root_entity_id = r.root_entity_id /\ q.path = r.path
        /\ (/\ RunCall /\ last'.call.op = "hierarchy_node" /\ last'.err = "none"
            /\ ~\E r \in db.hierarchy_nodes :
                  r.root_entity_id = last'.call.root_id /\ r.path = last'.call.path)
              => /\ last'.ret \notin Ids(db.hierarchy_nodes)
                 /\ db.hierarchy_nodes \subseteq db'.hierarchy_nodes
                 /\ \E q \in db'.hierarchy_nodes :
                       /\ q.id = last'.ret /\ q.path = last'.call.path
                       /\ q.root_entity_id = last'.call.root_id ]_vars

\* a node upsert has inserted a row for a path the store holds under another root
C15_Witness ==
    /\ last.call.op = "hierarchy_node" /\ ~last.hit /\ last.err = "none"
    /\ \E r, q \in db.hierarchy_nodes :
          /\ r.id = last.ret /\ q.id # r.id
          /\ q.path = r.path /\ q.root_entity_id # r.root_entity_id

\* C16: no step removes an identifier from a relation, or a (owner kind,
\* owner id, key) from the metadata.
C16_NoDeletion ==
    [][ /\ \A rel \in Relations : Ids(db[rel]) \subseteq Ids(db'[rel])
        /\ {<<r.entity_type, r.entity_id, r.key>> : r \in db.metadata}
              \subseteq {<<r.entity_type, r.entity_id, r.key>> : r \in db'.metadata} ]_vars

\* a complete run that no longer discovers the Tailscale peer has returned,
\* and the store still holds the rows an earlier run wrote for the peer
C16_Witness ==
    /\ pc = "returned_true" /\ prevOutcome = "exit_success"
    /\ prevInput.ts.available /\ ~input.ts.available /\ input.cfg = prevInput.cfg
    /\ \E e \in db.entities : e.name = "peer_nodekey1" /\ e.updated_at < now
    /\ \E m \in db.metadata : m.key = "tailscale_ip" /\ m.updated_at < now

\* C17 as stated: an upsert that hits an existing conflict key leaves the row
\* of that key with updated_at at the time of the call, in each of the six
\* relations.
C17_TimestampRefresh ==
    [][ (IsCall /\ pc = "idle" /\ last'.hit /\ last'.err = "none")
          => LET a == last'.call
             IN  IF a.op = "metadata"
                 THEN \E r \in db'.metadata :
                         /\ MetadataConflict(r, a.owner, a.parent_id, a.key)
                         /\ r.updated_at = now
                 ELSE \E r \in RowsOf(db', a.op) :
                         r.id = last'.ret /\ r.updated_at = now ]_vars

\* the store call before the i-th that last assigned the local variable reg,
\* or 0 when none did
Binder(calls, i, reg) ==
    LET js == {j \in 1..(i - 1) : calls[j].dst = reg}
    IN  IF js = {} THEN 0 ELSE CHOOSE j \in js : \A k \in js : k <= j

\* C18: the parent of every stored node and of every stored entity is an
\* identifier a hierarchy-node upsert returned, and every node or entity
\* upsert of a run takes its parent from a local variable that a
\* hierarchy-node upsert assigned, never from one an entity upsert assigned.
C18_LeafInvariant ==
    /\ \A n \in db.hierarchy_nodes :
          n.parent_id # NULL => \E p \in returned["hierarchy_node"] : p[2] = n.parent_id
    /\ \A e \in db.entities :
          \E p \in returned["hierarchy_node"] : p[2] = e.parent_node_id
    /\ \A i \in 1..Len(prog) :
          (prog[i].op \in {"hierarchy_node", "entity"} /\ prog[i].parent_reg # "")
            => /\ Binder(prog, i, prog[i].parent_reg) > 0
               /\ prog[Binder(prog, i, prog[i].parent_reg)].op = "hierarchy_node"

\* a run has stored the public key entity under the SSH node, whose
\* identifier is also the identifier of a stored entity
C18_Witness ==
    /\ pc = "returned_true"
    /\ \E e, f \in db.entities, n \in db.hierarchy_nodes :
          /\ e.name = "id_rsa.pub" /\ e.updated_at = now
          /\ e.parent_node_id = n.id /\ n.path = "network_root/ssh"
          /\ f.id = n.id

\* C19: an entity upsert whose (parent_node_id, name) is stored returns the
\* identifier of that row, adds no identifier, and leaves the row with the
\* path of the call and its digest; an entity upsert whose (parent_node_id,
\* name) is not stored, even if its name and path are stored under another
\* parent node, inserts a row with a new identifier and leaves the stored
\* rows as they were.
C19_EntityIdentity ==
    [][ (IsCall /\ pc = "idle" /\ last'.call.op = "entity" /\ last'.err = "none")
          => LET a == last'.call
                 old == {r \in db.entities :
                            r.parent_node_id = a.parent_id /\ r.name = a.name}
             IN  IF old # {}
                 THEN /\ \A r \in old : r.id = last'.ret
                      /\ Ids(db'.entities) = Ids(db.entities)
                      /\ \E q \in db'.entities :
                            /\ q.id = last'.ret /\ q.path = a.path
                            /\ q.path_hash = Sha256(a.path)
                 ELSE /\ last'.ret \notin Ids(db.entities)
                      /\ db.entities \subseteq db'.entities
                      /\ \E q \in db'.entities :
                            /\ q.id = last'.ret /\ q.name = a.name /\ q.path = a.path
                            /\ q.parent_node_id = a.parent_id ]_vars

\* an entity upsert has inserted a second row for a name and path that the
\* store holds under another parent node
C19_Witness ==
    /\ pc = "idle" /\ last.call.op = "entity" /\ last.err = "none"
    /\ \E r, q \in db.entities :
          /\ r.id = last.ret /\ q.id # r.id
          /\ q.name = r.name /\ q.path = r.path
          /\ q.parent_node_id # r.parent_node_id

\* C20: in a run the root entity is upserted after the data source, every
\* node and entity after the root entity, and every call that names a parent
\* or an owner after the upsert of this run that returned it: a
\* hierarchy-node upsert for a parent, the upsert of the owner's kind for an
\* add_metadata call.
C20_WriteOrdering ==
    [][ RunCall
          => LET c == prog[ip]
                 b == Binder(prog, ip, c.parent_reg)
             IN  /\ c.op = "data_source" => ip = 1
                 /\ c.op = "root_entity" => data_source_id # NULL
                 /\ c.op \in {"hierarchy_node", "entity"} =>
                       /\ regs["root_entity_id"] # NULL
                       /\ Binder(prog, ip, "root_entity_id") > 0
                 /\ c.parent_reg # "" =>
                       /\ b > 0 /\ regs[c.parent_reg] # NULL
                       /\ prog[b].op = IF c.op = "metadata" THEN c.owner
                                       ELSE "hierarchy_node"
                       /\ \E p \in returned[prog[b].op] : p[2] = regs[c.parent_reg] ]_vars

\* a run has written the entry that links the public key to its private key,
\* the last of a chain of node, entity and metadata calls
C20_Witness ==
    /\ pc = "collect" /\ last.call.op = "metadata" /\ last.call.key = "private_key"
    /\ last.err = "none"
    /\ last.call.parent_id = regs["pub_key_entity_id"]
    /\ regs["pub_key_entity_id"] # regs["key_entity_id"]

\* C21: the path_hash of every stored node and of every stored entity is the
\* digest of the path the row holds.
C21_HashConsistency ==
    /\ \A n \in db.hierarchy_nodes : n.path_hash = Sha256(n.path)
    /\ \A e \in db.entities : e.path_hash = Sha256(e.path)

\* an entity upsert has replaced, in place, the path of a row the store
\* started with
C21_Witness ==
    /\ pc = "idle" /\ last.call.op = "entity" /\ last.hit /\ last.err = "none"
    /\ \E q \in dbStart.entities, r \in db.entities :
          /\ q.id = last.ret /\ r.id = last.ret
          /\ q.path # last.call.path
          /\ r.path = last.call.path /\ r.path_hash # q.path_hash

\* C22: when an upsert returns, the store holds the row of its conflict key
\* with the values of the call; when an upsert fails, the six relations are
\* as they were before the call; and no other step (connecting, closing the
\* connection, time passing) changes what the store holds.
C22_CommitAndFrame ==
    [][ IF IsCall /\ pc = "idle"
        THEN LET a == last'.call
             IN  IF last'.err = "none"
                 THEN IF a.op = "metadata"
                      THEN \E r \in db'.metadata :
                              /\ MetadataConflict(r, a.owner, a.parent_id, a.key)
                              /\ r.value = a.value /\ r.data_type = a.data_type
                      ELSE \E r \in RowsOf(db', a.op) :
                              r.id = last'.ret /\ HoldsCall(r, a)
                 ELSE \A rel \in Relations \cup {"metadata"} : db'[rel] = db[rel]
        ELSE db' = db ]_vars

\* an entity upsert has failed after an upsert that returned, the connection
\* has been closed, and the store holds more than it started with
C22_Witness ==
    /\ pc = "idle" /\ last.call.op = "entity" /\ last.err = "ConstraintViolation"
    /\ connection # NULL /\ connection \notin conns
    /\ View(db) # View(dbStart)

\* C23 as stated: at most one connection is open in a run of the test
\* script, and none is open once close_connection() has been called.
C23_SingleConnection ==
    /\ Cardinality(conns) <= 1
    /\ pc = "test_done" => conns = {}

\* C24 as stated: after a run that collected every sub-tree, each address
\* discovered for a ZeroTier network, for a Tailscale peer or for the local
\* host is the value of a metadata entry of the entity that owns it.
C24_AllAddressesStored ==
    pc = "returned_true" =>
      LET Has(name, addr) ==
            \E e \in db.entities, m \in db.metadata :
               /\ e.root_entity_id = regs["root_entity_id"]
               /\ e.name = name
               /\ m.entity_type = "entity"
               /\ m.entity_id = e.id
               /\ m.value = addr
      IN  /\ input.zt.available =>
               \A i \in 1..Len(input.zt.networks) :
                  \A j \in 1..Len(input.zt.networks[i].ips) :
                     Has("network_" \o input.zt.networks[i].id, input.zt.networks[i].ips[j])
          /\ input.ts.available =>
               \A i \in 1..Len(input.ts.peers) :
                  \A j \in 1..Len(input.ts.peers[i].ips) :
                     Has("peer_" \o input.ts.peers[i].id, input.ts.peers[i].ips[j])
          /\ \A j \in 1..Len(input.local_ips) :
               ~input.local_ips[j].loopback => Has("ssh_service", input.local_ips[j].addr)

\* C25 as stated: after a run that collected the SSH sub-tree, every key file
\* found in the scanned directories has an entity row under the SSH node that
\* carries its own content, rows of different key files are different rows,
\* and the ssh_service entity is a row of its own.
C25_DistinctEntities ==
    pc = "returned_true" =>
      LET RowOf(k) == {e \in db.entities :
                          /\ e.parent_node_id = regs["ssh_node_id"]
                          /\ e.name = k.name
                          /\ e.content = JsonOrNone(SshKeyCalls(k)[1].blob)}
      IN  /\ \A i \in 1..Len(input.ssh) : RowOf(input.ssh[i]) # {}
          /\ \A i, j \in 1..Len(input.ssh) :
                input.ssh[i] # input.ssh[j] => RowOf(input.ssh[i]) \cap RowOf(input.ssh[j]) = {}
          /\ \E e \in db.entities :
                /\ e.id = regs["ssh_entity_id"]
                /\ e.name = "ssh_service"
                /\ \A i \in 1..Len(input.ssh) : e \notin RowOf(input.ssh[i])

====
